---- MODULE Spec2Model ----
(***************************************************************************)
(* Model of the spatial-converter service:                                 *)
(*   server.py     the job table active_conversions, the submission        *)
(*                 handler start_conversion and the background task        *)
(*                 run_conversion;                                         *)
(*   converter.py  SpatialConverter.convert and the conversion methods it  *)
(*                 dispatches to, one step per progress callback or        *)
(*                 blocking engine call.                                   *)
(* The file system is the set fs of existing paths plus the one pipeline   *)
(* file temp_path/"pipeline.json", whose content is named by the job that  *)
(* wrote it.                                                               *)
(* The coordinate classifier and the E57 -> PLY pipeline builder are pure   *)
(* functions of the source's summary; they are operators here, applied to  *)
(* sample inputs by the specification PlanSpec.                            *)
(***************************************************************************)
EXTENDS Integers, Sequences, FiniteSets, TLC

\* ------------------------------------------------------------------ bounds
\* Files whose conversions are requested, and submissions accepted in one
\* behaviour (two point-cloud conversions, concurrent or one after the
\* other, or one mesh conversion: see Weight).
NumFiles == 1
MaxSubmits == 2

\* ------------------------------------------------------------- identifiers
Files == 1..NumFiles

ConversionType ==
    {"e57_to_ply", "e57_to_las", "las_to_copc", "ply_to_copc", "laz_to_copc",
     "obj_to_3dtiles", "gltf_to_3dtiles", "glb_to_3dtiles",
     "ply_to_3dtiles", "las_to_3dtiles", "e57_to_3dtiles"}

CopcTypes == {"las_to_copc", "laz_to_copc", "ply_to_copc"}
MeshTypes == {"obj_to_3dtiles", "gltf_to_3dtiles", "glb_to_3dtiles"}
PointTileTypes == {"ply_to_3dtiles", "las_to_3dtiles"}

\* job_id = f"conv_{file_id}_{conversion_type}"
JobIds == Files \X ConversionType
FileOf(j) == j[1]
TypeOf(j) == j[2]

\* Paths are <<file stem, kind>>; the pipeline file is the same for every job.
NoPath == <<0, "none">>
PipelinePath == <<0, "pipeline">>
NoDoc == <<0, "none">>

\* ------------------------------------------------------------------- state
VARIABLES
    active_conversions, \* server.py: job_id -> ConversionStatus (NoEntry: absent)
    scheduled,          \* background tasks added and not yet started, per job
    submits,            \* submissions accepted so far, by weight
    pc,                 \* position of each job's background task
    loc,                \* local variables of each job's running conversion
    result,             \* the ConversionResult being returned, per job
    fs,                 \* paths that exist on disk
    pipeline_file,      \* content of pipeline.json: the job whose pipeline it holds
    plan                \* one run of the E57 -> PLY planner: its inputs and what
                        \* the classifier and the pipeline builder computed

vars == <<active_conversions, scheduled, submits, pc, loc, result, fs, pipeline_file, plan>>

\* The variables of the service, which the planner's steps leave alone.
service == <<active_conversions, scheduled, submits, pc, loc, result, fs, pipeline_file>>

NoEntry == [status |-> "none", progress |-> 0, output_path |-> NoPath, error |-> "None"]

\* ConversionStatus(job_id, file_id, status="pending", progress=0)
PendingEntry == [status |-> "pending", progress |-> 0, output_path |-> NoPath, error |-> "None"]

\* ConversionResult(success, output_path, error, metadata); refs are the paths
\* the result names (output_path and the paths in its metadata); spatial is
\* metadata["spatialInfo"], named by the file whose bounds it was computed
\* from ("none": the key is absent); cause is the error of a sub-conversion
\* that the error message quotes after its own text.
NoResult ==
    [success |-> FALSE, output_path |-> NoPath, error |-> "None", refs |-> {},
     spatial |-> "none", cause |-> "None"]
Success(p, refs) ==
    [success |-> TRUE, output_path |-> p, error |-> "None", refs |-> refs,
     spatial |-> "none", cause |-> "None"]
Failure(e) ==
    [success |-> FALSE, output_path |-> NoPath, error |-> e, refs |-> {},
     spatial |-> "none", cause |-> "None"]

\* Wrapped without the quoted error.
WrappedDropsCause(e, r) == Failure(e)

\* ConversionResult(success=False, error=f"<text of e>: {r.error}")
Wrapped(e, r) == [Failure(e) EXCEPT !.cause = r.error]

LocInit ==
    [hop |-> 0, rc |-> "none", fin |-> FALSE, ran |-> NoDoc,
     pdal_n |-> 0, py3d_n |-> 0, eng_failed |-> FALSE,
     link |-> FALSE, work_dir |-> FALSE, geo |-> FALSE, converted |-> FALSE,
     tried |-> <<>>, eng_ok |-> {}, temps |-> {}, outs |-> {},
     ply_spatial |-> "none", transformed |-> FALSE]

Idle ==
    /\ active_conversions = [j \in JobIds |-> NoEntry]
    /\ scheduled = [j \in JobIds |-> 0]
    /\ submits = 0
    /\ pc = [j \in JobIds |-> "idle"]
    /\ loc = [j \in JobIds |-> LocInit]
    /\ result = [j \in JobIds |-> NoResult]
    /\ fs = {}
    /\ pipeline_file = NoDoc

\* ------------------------------------------------------------- floats
\* The Python floats of a bounding box.  A finite value is n + e * 1e-4; the
\* values compared with each other differ by less than 10000 in e, which
\* makes the order on finite values the lexicographic one.
Fin(n, e) == [k |-> "fin", n |-> n, e |-> e]
Num(n) == Fin(n, 0)
Inf == [k |-> "inf", n |-> 0, e |-> 0]
NegInf == [k |-> "ninf", n |-> 0, e |-> 0]
NaN == [k |-> "nan", n |-> 0, e |-> 0]

\* math.isinf, math.isnan
isinf(a) == a.k \in {"inf", "ninf"}
isnan(a) == a.k = "nan"

\* a - b
fsub(a, b) ==
    IF a.k = "nan" \/ b.k = "nan" THEN NaN
    ELSE IF a.k = "fin" /\ b.k = "fin" THEN Fin(a.n - b.n, a.e - b.e)
    ELSE IF a.k = b.k THEN NaN
    ELSE IF a.k = "inf" \/ b.k = "ninf" THEN Inf
    ELSE NegInf

\* abs(a)
fabs(a) ==
    IF a.k = "nan" THEN NaN
    ELSE IF a.k # "fin" THEN Inf
    ELSE IF a.n < 0 \/ (a.n = 0 /\ a.e < 0) THEN Fin(0 - a.n, 0 - a.e)
    ELSE a

\* a < b and a <= b: false as soon as one side is NaN
flt(a, b) ==
    /\ a.k # "nan" /\ b.k # "nan"
    /\ \/ a.k = "ninf" /\ b.k # "ninf"
       \/ b.k = "inf" /\ a.k # "inf"
       \/ a.k = "fin" /\ b.k = "fin" /\ (a.n < b.n \/ (a.n = b.n /\ a.e < b.e))

fle(a, b) == a.k # "nan" /\ b.k # "nan" /\ (flt(a, b) \/ a = b)

\* lo <= a <= hi, for integers lo and hi
within(lo, a, hi) == fle(Num(lo), a) /\ fle(a, Num(hi))

\* ------------------------------------------- _detect_coordinate_system
\* bbox = (minx, miny, minz, maxx, maxy, maxz)
Bbox(x, y, z) ==
    [minx |-> x[1], miny |-> y[1], minz |-> z[1],
     maxx |-> x[2], maxy |-> y[2], maxz |-> z[2]]

Coords(b) == {b.minx, b.miny, b.minz, b.maxx, b.maxy, b.maxz}

x_range(b) == fabs(fsub(b.maxx, b.minx))
y_range(b) == fabs(fsub(b.maxy, b.miny))
z_range(b) == fabs(fsub(b.maxz, b.minz))

bounds_valid(b) ==
    /\ flt(Fin(0, 1), x_range(b)) /\ flt(Fin(0, 1), y_range(b))
    /\ ~isinf(z_range(b))
    /\ \A v \in Coords(b) : ~isinf(v)

\* is_swapped_geo with x_range <= 1 and y_range <= 1.
is_swapped_geo_inclusive(b) ==
    /\ bounds_valid(b)
    /\ fle(x_range(b), Num(1)) /\ fle(y_range(b), Num(1))
    /\ within(20, b.minz, 70) /\ within(20, b.maxz, 70)

is_swapped_geo(b) ==
    /\ bounds_valid(b)
    /\ flt(x_range(b), Num(1)) /\ flt(y_range(b), Num(1))
    /\ within(20, b.minz, 70) /\ within(20, b.maxz, 70)

\* is_standard_geo without the two range tests.
is_standard_geo_any_range(b) ==
    /\ bounds_valid(b)
    /\ within(-180, b.minx, 180) /\ within(-180, b.maxx, 180)
    /\ within(-90, b.miny, 90) /\ within(-90, b.maxy, 90)

is_standard_geo(b) ==
    /\ bounds_valid(b)
    /\ within(-180, b.minx, 180) /\ within(-180, b.maxx, 180)
    /\ within(-90, b.miny, 90) /\ within(-90, b.maxy, 90)
    /\ flt(x_range(b), Num(10)) /\ flt(y_range(b), Num(10))

is_korea_tm(b) ==
    /\ bounds_valid(b)
    /\ within(100000, b.minx, 700000) /\ within(100000, b.maxx, 700000)
    /\ within(100000, b.miny, 700000) /\ within(100000, b.maxy, 700000)
    /\ flt(z_range(b), Num(1000))

is_projected(b) ==
    /\ bounds_valid(b)
    /\ within(10000, fabs(b.minx), 10000000)
    /\ within(10000, fabs(b.miny), 10000000)
    /\ flt(z_range(b), Num(5000))

NoBbox == Bbox(<<NaN, NaN>>, <<NaN, NaN>>, <<NaN, NaN>>)

\* The dictionary returned when the pdal info call fails, times out or
\* raises; has_bbox FALSE stands for "bbox": None.
NoCoordInfo ==
    [is_geographic |-> FALSE, is_swapped |-> FALSE, is_korea_tm |-> FALSE,
     is_projected |-> FALSE, point_count |-> 0, has_bbox |-> FALSE, bbox |-> NoBbox]

\* The dictionary returned for the summary of a readable file.
_detect_coordinate_system(probe_ok, b, num_points) ==
    IF ~probe_ok THEN NoCoordInfo
    ELSE [is_geographic |-> is_swapped_geo(b) \/ is_standard_geo(b),
          is_swapped |-> is_swapped_geo(b),
          is_korea_tm |-> is_korea_tm(b),
          is_projected |-> is_projected(b),
          point_count |-> num_points,
          has_bbox |-> TRUE, bbox |-> b]

\* ------------------------------------------- _extract_obj_spatial_info
\* The ranges of the OBJ classifier are signed: maxx - minx.
obj_is_geographic(b) ==
    /\ within(-180, b.minx, 180) /\ within(-180, b.maxx, 180)
    /\ within(-90, b.miny, 90) /\ within(-90, b.maxy, 90)
    /\ flt(fsub(b.maxx, b.minx), Num(10)) /\ flt(fsub(b.maxy, b.miny), Num(10))

obj_is_korea_tm(b) ==
    /\ within(100000, b.minx, 700000) /\ within(100000, b.maxx, 700000)
    /\ within(100000, b.miny, 700000) /\ within(100000, b.maxy, 700000)
    /\ flt(fsub(b.maxz, b.minz), Num(1000))

obj_is_projected(b) ==
    /\ within(10000, fabs(b.minx), 10000000)
    /\ within(10000, fabs(b.miny), 10000000)
    /\ flt(fsub(b.maxz, b.minz), Num(5000))
    /\ ~obj_is_korea_tm(b)

NoObjInfo ==
    [is_geographic |-> FALSE, is_korea_tm |-> FALSE, is_projected |-> FALSE,
     has_bbox |-> FALSE]

_extract_obj_spatial_info(b) ==
    IF isinf(b.minx) \/ isinf(b.maxx) THEN NoObjInfo
    ELSE [is_geographic |-> obj_is_geographic(b),
          is_korea_tm |-> obj_is_korea_tm(b),
          is_projected |-> obj_is_projected(b),
          has_bbox |-> TRUE]

\* ------------------------------------- _convert_e57_to_ply: the pipeline
\* A stage of the PDAL pipeline: its "type", and in arg what its remaining
\* keys say (which matrix, which values, which cell); step is the
\* decimation step, 0 elsewhere.
Stage(type, arg) == [type |-> type, arg |-> arg, step |-> 0]

\* has_valid_bounds restricted to the isinf test.
has_valid_bounds_inf_only(ci) ==
    /\ ci.has_bbox
    /\ \A v \in Coords(ci.bbox) : ~isinf(v)

has_valid_bounds(ci) ==
    /\ ci.has_bbox
    /\ \A v \in Coords(ci.bbox) : ~isinf(v) /\ ~isnan(v)

\* options.get("transform_coords", is_korea_tm or is_projected)
TransformCoords(ci, opt) ==
    IF opt = "absent" THEN ci.is_korea_tm \/ ci.is_projected ELSE opt = "true"

\* step = max(1, int(point_count / 500000))
DecimationStep(point_count) ==
    IF point_count \div 500000 < 1 THEN 1 ELSE point_count \div 500000

Decimation(point_count) ==
    [type |-> "filters.decimation", arg |-> "step", step |-> DecimationStep(point_count)]

\* options.get("voxel_size", ...): the default of the branch taken
VoxelSize(ci) == IF ci.is_geographic THEN "0.00001" ELSE "0.05"

\* SamplingStages with the voxel grid also used for small geographic sources.
SamplingStagesVoxelForSmallGeo(ci) ==
    IF ci.is_geographic /\ ci.point_count > 500000 THEN <<Decimation(ci.point_count)>>
    ELSE IF ci.point_count > 500000 /\ ~(ci.is_korea_tm \/ ci.is_projected)
         THEN <<Decimation(ci.point_count)>>
    ELSE <<Stage("filters.voxeldownsize", VoxelSize(ci))>>

SamplingStages(ci) ==
    IF ci.is_geographic /\ ci.point_count > 500000 THEN <<Decimation(ci.point_count)>>
    ELSE IF ci.is_geographic THEN <<>>
    ELSE IF ci.is_korea_tm \/ ci.is_projected
         THEN <<Stage("filters.voxeldownsize", VoxelSize(ci))>>
    ELSE IF ci.point_count > 500000 THEN <<Decimation(ci.point_count)>>
    ELSE <<Stage("filters.voxeldownsize", VoxelSize(ci))>>

needs_normalization(ci) == ci.is_geographic \/ ci.is_korea_tm \/ ci.is_projected

\* if needs_normalization and has_valid_bounds and bbox
normalization_applied(ci) == needs_normalization(ci) /\ has_valid_bounds(ci)

\* A finite difference of two bounds in units of 1e-4.
Ticks(a) == a.n * 10000 + a.e

\* Where the normalization matrix sends the coordinate v of an axis with
\* bounds lo and hi: scale * v - c * scale, with c = (lo + hi) / 2 and
\* scale = 100.0 / max(abs(hi - lo), 1e-10).  Exact for the values whose
\* image is an integer, which the corners of the box are.
NormalizedCoord(v, lo, hi) ==
    LET twice == Ticks(fsub(fsub(v, lo), fsub(hi, v)))
        range == Ticks(fabs(fsub(hi, lo)))
    IN IF range = 0
       THEN twice * 50000000
       ELSE (twice \div range) * 50 + ((twice % range) * 50) \div range

NormalizationStages(ci) ==
    IF normalization_applied(ci)
    THEN <<Stage("filters.transformation", "normalize")>>
    ELSE <<>>

UpAxisStages(transform_coords) ==
    IF transform_coords THEN <<Stage("filters.transformation", "z_up_to_y_up")>> ELSE <<>>

\* ColorStages with a flat colour assigned to 8-bit sources as well.
ColorStagesAlwaysAssign(has_color, is_16bit_color, normalized) ==
    IF has_color /\ is_16bit_color THEN <<Stage("filters.assign", "scale_256")>>
    ELSE IF normalized THEN <<Stage("filters.assign", "height_ramp")>>
    ELSE <<Stage("filters.assign", "flat_150_180_210")>>

ColorStages(has_color, is_16bit_color, normalized) ==
    IF has_color
    THEN IF is_16bit_color THEN <<Stage("filters.assign", "scale_256")>> ELSE <<>>
    ELSE IF normalized THEN <<Stage("filters.assign", "height_ramp")>>
    ELSE <<Stage("filters.assign", "flat_150_180_210")>>

\* output_has_color set only where a filters.assign stage is appended.
OutputHasColorOnlyAssigned(has_color, is_16bit_color, normalized) ==
    IF has_color THEN is_16bit_color ELSE TRUE

\* output_has_color: set to True on each of the four colour branches
OutputHasColor(has_color, is_16bit_color, normalized) ==
    IF has_color THEN TRUE
    ELSE IF normalized THEN TRUE
    ELSE TRUE

\* output_dims and the writers.ply stage
WriterStage(output_has_color) ==
    Stage("writers.ply", IF output_has_color THEN "X,Y,Z,Red,Green,Blue" ELSE "X,Y,Z")

\* PipelineStages with the colour stage appended before the two affines.
PipelineStagesColorFirst(ci, has_color, is_16bit_color, opt) ==
    <<Stage("readers.e57", "source")>>
       \o SamplingStages(ci)
       \o ColorStages(has_color, is_16bit_color, normalization_applied(ci))
       \o NormalizationStages(ci)
       \o UpAxisStages(TransformCoords(ci, opt))
       \o <<WriterStage(OutputHasColor(has_color, is_16bit_color,
                                       normalization_applied(ci)))>>

\* PipelineStages of a planner that remembers having built a pipeline and
\* leaves the sampling stage out of the next one.
PipelineStagesStateful(ci, has_color, is_16bit_color, opt) ==
    <<Stage("readers.e57", "source")>>
       \o (IF plan.at = "planned" THEN <<>> ELSE SamplingStages(ci))
       \o NormalizationStages(ci)
       \o UpAxisStages(TransformCoords(ci, opt))
       \o ColorStages(has_color, is_16bit_color, normalization_applied(ci))
       \o <<WriterStage(OutputHasColor(has_color, is_16bit_color,
                                       normalization_applied(ci)))>>

\* pipeline_stages as handed to _run_pdal_pipeline
PipelineStages(ci, has_color, is_16bit_color, opt) ==
    <<Stage("readers.e57", "source")>>
       \o SamplingStages(ci)
       \o NormalizationStages(ci)
       \o UpAxisStages(TransformCoords(ci, opt))
       \o ColorStages(has_color, is_16bit_color, normalization_applied(ci))
       \o <<WriterStage(OutputHasColor(has_color, is_16bit_color,
                                       normalization_applied(ci)))>>

\* ------------------------------------------------ inputs of the planner
\* Sample extents <<min, max>> of the three axes: degrees, Korea TM and
\* other projected metres, local units, degenerate and non-finite extents.
XExtents ==
    {<<Num(127), Fin(127, 5000)>>, <<Num(126), Num(129)>>, <<Num(120), Num(135)>>,
     <<Num(200000), Fin(200000, 5000)>>, <<Num(200000), Num(200500)>>,
     <<Num(2000000), Num(2000500)>>, <<Num(-500000), Num(-499000)>>,
     <<Num(0), Num(10)>>, <<Num(5), Num(5)>>, <<Num(5), Fin(5, 1)>>,
     <<NegInf, Inf>>, <<Num(0), Inf>>, <<NaN, Num(10)>>,
     <<Num(-10), Num(10)>>, <<Num(127), Num(128)>>, <<Num(-1), Num(1)>>}

YExtents ==
    {<<Num(37), Fin(37, 5000)>>, <<Num(36), Num(39)>>,
     <<Num(500000), Fin(500000, 5000)>>, <<Num(500000), Num(500500)>>,
     <<Num(4000000), Num(4000500)>>,
     <<Num(0), Num(10)>>, <<Num(5), Num(5)>>, <<Num(0), Inf>>, <<Num(0), NaN>>,
     <<Num(-5), Num(5)>>, <<Num(-1), Num(1)>>}

ZExtents ==
    {<<Num(30), Num(60)>>, <<Num(0), Num(100)>>, <<Num(0), Num(2000)>>, <<Num(0), Num(6000)>>,
     <<Num(5), Num(5)>>, <<Num(5), Fin(5, 1)>>,
     <<Num(0), Inf>>, <<NaN, Num(10)>>, <<Num(30), NaN>>,
     <<Num(45), Num(45)>>}

PointCounts == {1000, 500000, 1200000}

\* _detect_color_info: is_16bit is looked for only when has_color
ColorInfos ==
    {[has_color |-> FALSE, is_16bit |-> FALSE],
     [has_color |-> TRUE, is_16bit |-> FALSE],
     [has_color |-> TRUE, is_16bit |-> TRUE]}

TransformCoordsOptions == {"absent", "true", "false"}

\* --------------------------------------------------- _create_glb_tileset
\* max(m / 2, 10) without the floor.
HalfNotFloored(m) == m \div 2

\* max(m / 2, 10) for a length of m whole metres
HalfFloored(m) == IF m \div 2 < 10 THEN 10 ELSE m \div 2

\* math.sin and math.cos in thousandths, at the whole degrees the sample
\* extents are centred on.
sin_milli(deg) ==
    IF deg = 0 THEN 0 ELSE IF deg = 5 THEN 87 ELSE IF deg = 37 THEN 602 ELSE 799

cos_milli(deg) ==
    IF deg = 0 THEN 1000 ELSE IF deg = 5 THEN 996 ELSE IF deg = 37 THEN 799 ELSE -602

\* v * m / 1000 within 32 bits, for v >= 0
MulMilli(v, m) == (v \div 1000) * m + ((v % 1000) * m) \div 1000

\* math.sqrt on naturals up to 10^8
Isqrt(n) == CHOOSE r \in 0..10000 : r * r <= n /\ n < (r + 1) * (r + 1)

\* A product (N + alt) * f1 * f2 / 10^6 when alt is infinite
InfTimes(f1, f2) ==
    IF f1 * f2 = 0 THEN NaN ELSE IF f1 * f2 > 0 THEN Inf ELSE NegInf

\* The translation with sin(lon) and cos(lon) exchanged.
EcefTranslationLonSwapped(lon, lat, alt) ==
    LET a == 6378137
        root == Isqrt(100000000 - (6694 * ((sin_milli(lat) * sin_milli(lat)) \div 100)) \div 100)
        N == (a \div root) * 10000 + ((a % root) * 10000) \div root
        Nz == N - ((N \div 1000) * 6694) \div 1000
    IN IF isinf(alt)
       THEN <<InfTimes(cos_milli(lat), sin_milli(lon)),
              InfTimes(cos_milli(lat), cos_milli(lon)),
              InfTimes(sin_milli(lat), 1)>>
       ELSE <<Num(MulMilli(MulMilli(N + alt.n, cos_milli(lat)), sin_milli(lon))),
              Num(MulMilli(MulMilli(N + alt.n, cos_milli(lat)), cos_milli(lon))),
              Num(MulMilli(Nz + alt.n, sin_milli(lat)))>>

\* The ECEF coordinates (x, y, z) of the centre point, in whole metres:
\* a is the equatorial radius, e2 = 2f - f*f is 6694 millionths, N is the
\* radius of curvature a / sqrt(1 - e2 * sin_lat * sin_lat).
EcefTranslation(lon, lat, alt) ==
    LET a == 6378137
        root == Isqrt(100000000 - (6694 * ((sin_milli(lat) * sin_milli(lat)) \div 100)) \div 100)
        N == (a \div root) * 10000 + ((a % root) * 10000) \div root
        Nz == N - ((N \div 1000) * 6694) \div 1000
    IN IF isinf(alt)
       THEN <<InfTimes(cos_milli(lat), cos_milli(lon)),
              InfTimes(cos_milli(lat), sin_milli(lon)),
              InfTimes(sin_milli(lat), 1)>>
       ELSE <<Num(MulMilli(MulMilli(N + alt.n, cos_milli(lat)), cos_milli(lon))),
              Num(MulMilli(MulMilli(N + alt.n, cos_milli(lat)), sin_milli(lon))),
              Num(MulMilli(Nz + alt.n, sin_milli(lat)))>>

\* The root of the tileset written for a GLB: whether it has a "transform",
\* which bounding volume it has, the volume's centre and the half-axis
\* lengths on its diagonal.  Lengths are whole metres (an infinite Z extent
\* gives an infinite half height); cos(lat) is taken in thousandths at the
\* latitudes the sample extents are centred on.
_create_glb_tileset(si, b) ==
    IF si.has_bbox /\ si.is_geographic
    THEN LET lat == (b.miny.n + b.maxy.n) \div 2
             lon == (b.minx.n + b.maxx.n) \div 2
             cos_lat == cos_milli(lat)
             depth_m == (Ticks(fabs(fsub(b.maxy, b.miny))) * 111) \div 10
             width_m == (((Ticks(fabs(fsub(b.maxx, b.minx))) * 111) \div 10) * cos_lat) \div 1000
             height == fabs(fsub(b.maxz, b.minz))
             alt == IF isinf(height) THEN Inf ELSE Num(height.n \div 2)
         IN [transform |-> TRUE, volume |-> "box", center |-> <<0, 0, 0>>,
             translation |-> EcefTranslation(lon, lat, alt),
             half |-> <<Num(HalfFloored(width_m)), Num(HalfFloored(depth_m)),
                        IF isinf(height) THEN Inf ELSE Num(HalfFloored(height.n))>>]
    ELSE [transform |-> FALSE, volume |-> "box", center |-> <<0, 0, 0>>,
          translation |-> <<>>,
          half |-> <<Num(100), Num(100), Num(100)>>]


NoPlan ==
    [at |-> "none", probe_ok |-> FALSE, bbox |-> NoBbox, num_points |-> 0,
     coord_info |-> NoCoordInfo, obj_info |-> NoObjInfo,
     has_color |-> FALSE, is_16bit |-> FALSE, transform_coords |-> "absent",
     pipeline |-> <<>>, pipeline_again |-> <<>>,
     tileset |-> _create_glb_tileset(NoObjInfo, NoBbox)]

Init == Idle /\ plan = NoPlan

\* ------------------------------------------------------------ server.py
\* IsActive with "pending" left out of the list.
IsActiveConvertingOnly(e) == e.status \in {"converting"}

\* existing.status in ["pending", "converting"]
IsActive(e) == e.status \in {"pending", "converting"}

\* Response without the source lookup.
ResponseNoLookup(ac, j, found) ==
    IF IsActive(ac[j])
    THEN [code |-> 200, status |-> ac[j].status, message |-> "already_running"]
    ELSE [code |-> 200, status |-> "pending", message |-> "started"]

\* start_conversion: what the handler returns (the duplicate check comes
\* before the source lookup).
Response(ac, j, found) ==
    IF IsActive(ac[j])
    THEN [code |-> 200, status |-> ac[j].status, message |-> "already_running"]
    ELSE IF ~found
    THEN [code |-> 404, status |-> "none", message |-> "source_not_found"]
    ELSE [code |-> 200, status |-> "pending", message |-> "started"]

\* TableAfter with the status of the existing entry reset and the entry kept.
TableAfterKeepsEntry(ac, j, found) ==
    IF Response(ac, j, found).message = "started"
    THEN [ac EXCEPT ![j].status = "pending"]
    ELSE ac

\* start_conversion: the table and the task list it leaves behind.
TableAfter(ac, j, found) ==
    IF Response(ac, j, found).message = "started"
    THEN [ac EXCEPT ![j] = PendingEntry]
    ELSE ac

TasksAfter(sch, ac, j, found) ==
    IF Response(ac, j, found).message = "started"
    THEN [sch EXCEPT ![j] = @ + 1]
    ELSE sch

start_conversion(j, found) ==
    /\ active_conversions' = TableAfter(active_conversions, j, found)
    /\ scheduled' = TasksAfter(scheduled, active_conversions, j, found)

\* What a submission takes of the bound on submissions: a mesh conversion,
\* whose chain has an order of magnitude more states, takes all of it.
Weight(j) == IF TypeOf(j) \in MeshTypes THEN MaxSubmits ELSE 1

\* POST /convert for job j; found: the source path resolves to a file.
Submit(j) ==
    /\ submits + Weight(j) <= MaxSubmits
    /\ \E found \in BOOLEAN :
          /\ start_conversion(j, found)
          /\ submits' = IF scheduled'[j] > scheduled[j] THEN submits + Weight(j) ELSE submits
    /\ UNCHANGED <<pc, loc, result, fs, pipeline_file, plan>>

\* update_progress(job_id, file_id, progress), reached through the callback;
\* h is the wrapper of the running sub-conversion of a multi-hop conversion.
\* Scaled with the offsets of the two wrappers and without their factors.
ScaledOffsetOnly(h, p) ==
    IF h = 1 THEN 5 + p
    ELSE IF h = 2 THEN 50 + p
    ELSE p

Scaled(h, p) ==
    IF h = 1 THEN 5 + ((p * 4) \div 10)
    ELSE IF h = 2 THEN 50 + ((p * 5) \div 10)
    ELSE p

update_progress(ac, j, p) ==
    IF ac[j].status # "none" THEN [ac EXCEPT ![j].progress = p] ELSE ac

Emit(j, p) ==
    active_conversions' = update_progress(active_conversions, j, Scaled(loc[j].hop, p))

\* The callback of the multi-hop conversion itself, outside its two wrappers.
EmitRaw(j, p) ==
    active_conversions' = update_progress(active_conversions, j, p)

\* StartEntry without the status assignment.
StartEntryKeepsStatus(e) == [e EXCEPT !.progress = 10]

\* run_conversion, first block: status "converting", progress 10.
StartEntry(e) == [e EXCEPT !.status = "converting", !.progress = 10]

RunStart(j) ==
    /\ scheduled[j] > 0
    /\ pc[j] = "idle"
    /\ scheduled' = [scheduled EXCEPT ![j] = @ - 1]
    /\ active_conversions' = [active_conversions EXCEPT ![j] = StartEntry(@)]
    /\ pc' = [pc EXCEPT ![j] = "thread"]
    /\ UNCHANGED <<submits, loc, result, fs, pipeline_file, plan>>

\* FinishEntry without the status assignment of the failure branch.
FinishEntryKeepsStatus(e, r) ==
    IF r.success
    THEN [e EXCEPT !.status = "ready", !.progress = 100, !.output_path = r.output_path]
    ELSE [e EXCEPT !.error = r.error]

\* FinishEntry without the progress assignment of the success branch.
FinishEntryKeepsProgress(e, r) ==
    IF r.success
    THEN [e EXCEPT !.status = "ready", !.output_path = r.output_path]
    ELSE [e EXCEPT !.status = "failed", !.error = r.error]

\* run_conversion, after converter.convert returned.
FinishEntry(e, r) ==
    IF r.success
    THEN [e EXCEPT !.status = "ready", !.progress = 100, !.output_path = r.output_path]
    ELSE [e EXCEPT !.status = "failed", !.error = r.error]

RunFinish(j) ==
    /\ pc[j] = "finish"
    /\ active_conversions' = [active_conversions EXCEPT ![j] = FinishEntry(@, result[j])]
    /\ pc' = [pc EXCEPT ![j] = "idle"]
    /\ loc' = [loc EXCEPT ![j] = LocInit]
    /\ result' = [result EXCEPT ![j] = NoResult]
    /\ UNCHANGED <<scheduled, submits, fs, pipeline_file, plan>>

\* run_conversion, except Exception.
ExceptEntry(e) == [e EXCEPT !.status = "failed", !.error = "exception"]

RunExcept(j) ==
    /\ pc[j] = "fault"
    /\ active_conversions' = [active_conversions EXCEPT ![j] = ExceptEntry(@)]
    /\ pc' = [pc EXCEPT ![j] = "idle"]
    /\ loc' = [loc EXCEPT ![j] = LocInit]
    /\ result' = [result EXCEPT ![j] = NoResult]
    /\ UNCHANGED <<scheduled, submits, fs, pipeline_file, plan>>

\* --------------------------------------------------------- converter.py
\* Steps of the worker thread leave the request-side variables alone.
Thread == UNCHANGED <<scheduled, submits, plan>>

Goto(j, l) == pc' = [pc EXCEPT ![j] = l]
Return(j, r) == result' = [result EXCEPT ![j] = r]

\* Where a conversion method's return leads: back into the multi-hop
\* conversion that called it, or out of convert.
AfterReturn(h) == IF h = 1 THEN "hop_mid" ELSE IF h = 2 THEN "hop_end" ELSE "finish"

\* convert: the source check before the dispatch.
ConvertSourceMissing(j) ==
    /\ pc[j] = "thread"
    /\ Return(j, Failure("source_not_found"))
    /\ Goto(j, "finish")
    /\ Thread
    /\ UNCHANGED <<active_conversions, loc, fs, pipeline_file>>

\* convert: source.exists() raising outside the try block.
ConvertRaises(j) ==
    /\ pc[j] = "thread"
    /\ Goto(j, "fault")
    /\ Thread
    /\ UNCHANGED <<active_conversions, loc, result, fs, pipeline_file>>

\* Output of the pipeline held by document d: writers.ply / writers.las.
OutputKind(t) ==
    IF t \in {"e57_to_ply", "e57_to_3dtiles"} THEN "ply"
    ELSE IF t = "e57_to_las" THEN "las"
    ELSE "laz"

OutputOf(d) == <<FileOf(d), OutputKind(TypeOf(d))>>

\* _convert_e57_to_ply up to the first callback of _run_pdal_pipeline.
ConvertE57ToPly(j) ==
    /\ \/ pc[j] = "thread" /\ TypeOf(j) = "e57_to_ply"
       \/ pc[j] = "hop_ply"
    /\ Emit(j, 20)
    /\ Goto(j, "pdal_write")
    /\ Thread
    /\ UNCHANGED <<loc, result, fs, pipeline_file>>

\* _convert_e57_to_las up to the first callback of _run_pdal_pipeline.
ConvertE57ToLas(j) ==
    /\ pc[j] = "thread" /\ TypeOf(j) = "e57_to_las"
    /\ Emit(j, 20)
    /\ Goto(j, "pdal_write")
    /\ Thread
    /\ UNCHANGED <<loc, result, fs, pipeline_file>>

\* _convert_to_copc: the reader chosen by the extension, else a failure.
CopcExts == {".las", ".laz", ".ply", ".e57"}
Exts == {".e57", ".las", ".ply", ".obj", ".glb", ".txt"}

ConvertToCopc(j) ==
    /\ pc[j] = "thread" /\ TypeOf(j) \in CopcTypes
    /\ \E ext \in Exts :
          IF ext \in CopcExts
          THEN /\ Emit(j, 20)
               /\ Goto(j, "pdal_write")
               /\ UNCHANGED result
          ELSE /\ Return(j, Failure("unsupported_format"))
               /\ Goto(j, "finish")
               /\ UNCHANGED active_conversions
    /\ Thread
    /\ UNCHANGED <<loc, fs, pipeline_file>>

\* _run_pdal_pipeline: json.dump(pipeline) into pipeline.json, callback 30.
PdalWrite(j) ==
    /\ pc[j] = "pdal_write"
    /\ pipeline_file' = j
    /\ loc' = [loc EXCEPT ![j].temps = @ \cup {PipelinePath}]
    /\ Emit(j, 30)
    /\ Goto(j, "pdal_run")
    /\ Thread
    /\ UNCHANGED <<result, fs>>

\* What one engine invocation can do: exit 0 with its artifact, exit 0
\* without it, a non-zero exit, a non-zero exit or a kill at the timeout
\* that leaves a partial artifact, the timeout itself, executable missing.
EngineOutcomes == {"ok", "noout", "fail", "partial", "timeout", "notfound"}
Wrote(o) == o \in {"ok", "partial"}

\* subprocess.run(["pdal", "pipeline", pipeline_file], timeout=3600): pdal
\* executes the document the file holds when it is launched.
PdalOutcomes(d) ==
    IF d = NoDoc THEN {"fail", "notfound"}
    ELSE {"ok", "noout", "fail", "partial", "timeout", "notfound"}

PdalRun(j) ==
    /\ pc[j] = "pdal_run"
    /\ \E o \in PdalOutcomes(pipeline_file) :
          LET d == pipeline_file
              fs1 == IF Wrote(o) THEN fs \cup {OutputOf(d)} ELSE fs
              l1 == [loc[j] EXCEPT !.ran = d, !.pdal_n = @ + 1,
                                   !.rc = IF o \in {"ok", "noout"} THEN "ok" ELSE "fail",
                                   !.outs = IF Wrote(o) /\ OutputOf(d) \notin fs
                                            THEN @ \cup {OutputOf(d)} ELSE @,
                                   !.eng_failed = (o \notin {"ok", "noout"})]
          IN /\ fs' = fs1
             /\ loc' = [loc EXCEPT ![j] = l1]
             /\ IF o \in {"timeout", "notfound"}
                THEN /\ Return(j, Failure(IF o = "timeout" THEN "timeout" ELSE "exception"))
                     /\ Goto(j, "pdal_finally")
                     /\ UNCHANGED active_conversions
                ELSE /\ Emit(j, 80)
                     /\ Goto(j, "pdal_check")
                     /\ UNCHANGED result
    /\ Thread
    /\ UNCHANGED pipeline_file

\* PdalJudge without the output_path.exists() test.
PdalJudgeExitCodeOnly(rc, out_exists) ==
    IF rc # "ok" THEN "engine_failed" ELSE "None"

\* _run_pdal_pipeline: returncode != 0, then output_path.exists(), then
\* callback 95 and the success result.
PdalJudge(rc, out_exists) ==
    IF rc # "ok" THEN "engine_failed"
    ELSE IF ~out_exists THEN "output_missing"
    ELSE "None"

PdalCheck(j) ==
    /\ pc[j] = "pdal_check"
    /\ LET e == PdalJudge(loc[j].rc, OutputOf(j) \in fs)
       IN IF e # "None"
          THEN /\ Return(j, Failure(e))
               /\ UNCHANGED active_conversions
          ELSE /\ Return(j, Success(OutputOf(j), {OutputOf(j)}))
               /\ Emit(j, 95)
    /\ loc' = [loc EXCEPT ![j].eng_failed = @ \/ OutputOf(j) \notin fs]
    /\ Goto(j, "pdal_finally")
    /\ Thread
    /\ UNCHANGED <<fs, pipeline_file>>

\* finally: if pipeline_file.exists() ...
PdalFinallyExists(j) ==
    /\ pc[j] = "pdal_finally"
    /\ loc' = [loc EXCEPT ![j].fin = (pipeline_file # NoDoc)]
    /\ Goto(j, "pdal_unlink")
    /\ Thread
    /\ UNCHANGED <<active_conversions, result, fs, pipeline_file>>

\* ... pipeline_file.unlink(); FileNotFoundError when another job removed
\* the file in between, which replaces the result being returned.
\* _convert_e57_to_ply after _run_pdal_pipeline returned: the spatialInfo
\* record of the E57 source is attached to a success result when the source
\* has valid bounds.
E57SpatialInfo(t, r, valid) ==
    IF t \in {"e57_to_ply", "e57_to_3dtiles"} /\ r.success /\ valid
    THEN [r EXCEPT !.spatial = "e57"]
    ELSE r

PdalFinallyUnlink(j) ==
    /\ pc[j] = "pdal_unlink"
    /\ IF loc[j].fin /\ pipeline_file = NoDoc
       THEN /\ Return(j, Failure("exception"))
            /\ UNCHANGED <<pipeline_file, loc>>
       ELSE /\ pipeline_file' = IF loc[j].fin THEN NoDoc ELSE pipeline_file
            /\ loc' = [loc EXCEPT ![j].temps = IF loc[j].fin THEN @ \ {PipelinePath} ELSE @]
            /\ \E valid \in BOOLEAN :
                  Return(j, E57SpatialInfo(TypeOf(j), result[j], valid))
    /\ Goto(j, AfterReturn(loc[j].hop))
    /\ Thread
    /\ UNCHANGED <<active_conversions, fs>>

\* ------------------------------------------- _convert_pointcloud_to_3dtiles
P(j, k) == <<FileOf(j), k>>

\* output_dir = output_base / (source.stem + "_3dtiles"); inside the multi-hop
\* conversion the source is the temporary PLY, whose stem differs.
TilesDir(j, h) == IF h = 2 THEN P(j, "dir2") ELSE P(j, "dir")
TilesJson(j, h) == IF h = 2 THEN P(j, "tileset2") ELSE P(j, "tileset")

\* What lies inside output_base/<stem>_3dtiles.
DirKinds == {"tileset", "glb", "model", "unc", "resized", "compressed",
             "centered", "gltfpack", "gpcentered", "transformed"}
DirContents(j, h) ==
    IF h = 2 THEN {P(j, "tileset2")} ELSE {P(j, k) : k \in DirKinds}

\* Paths created by this step that were not on disk before it.
Created(l, F, G) == [l EXCEPT !.outs = @ \cup (G \ F)]

\* output_dir.mkdir(parents=True, exist_ok=True); callback 10.
PcBegin(j) ==
    /\ \/ pc[j] = "thread" /\ TypeOf(j) \in PointTileTypes
       \/ pc[j] = "hop_tiles"
    /\ LET G == fs \cup {TilesDir(j, loc[j].hop)}
       IN /\ fs' = G
          /\ loc' = [loc EXCEPT ![j] = Created(@, fs, G)]
    /\ Emit(j, 10)
    /\ Goto(j, "pc_ext")
    /\ Thread
    /\ UNCHANGED <<result, pipeline_file>>

PointTileExts == {".ply", ".las", ".laz"}

\* The format check, then the temporary symlink for a source without a
\* suffix; callback 20.
PcExt(j) ==
    /\ pc[j] = "pc_ext"
    /\ \E ext \in (IF loc[j].hop = 2 THEN {".ply"} ELSE Exts),
          suffix \in (IF loc[j].hop = 2 THEN {TRUE} ELSE BOOLEAN) :
          IF ext \notin PointTileExts
          THEN /\ Return(j, Failure("unsupported_format"))
               /\ Goto(j, AfterReturn(loc[j].hop))
               /\ UNCHANGED <<active_conversions, loc, fs>>
          ELSE /\ fs' = IF suffix THEN fs ELSE fs \cup {P(j, "pclink")}
               /\ loc' = [loc EXCEPT ![j].link = ~suffix,
                                     ![j].temps = IF suffix THEN @ ELSE @ \cup {P(j, "pclink")}]
               /\ Emit(j, 20)
               /\ Goto(j, "pc_detect")
               /\ UNCHANGED result
    /\ Thread
    /\ UNCHANGED pipeline_file

\* _detect_coordinate_system and _detect_color_info; callback 30.
PcDetect(j) ==
    /\ pc[j] = "pc_detect"
    /\ Emit(j, 30)
    /\ Goto(j, "pc_cmd")
    /\ Thread
    /\ UNCHANGED <<loc, result, fs, pipeline_file>>

\* The py3dtiles command line; callback 40.
PcCmd(j) ==
    /\ pc[j] = "pc_cmd"
    /\ Emit(j, 40)
    /\ Goto(j, "pc_run")
    /\ Thread
    /\ UNCHANGED <<loc, result, fs, pipeline_file>>

\* finally: if temp_link and temp_link.exists(): temp_link.unlink()
PcFinally(l, j, F) == IF l.link THEN F \ {P(j, "pclink")} ELSE F
PcFinallyLoc(l, j) == IF l.link THEN [l EXCEPT !.temps = @ \ {P(j, "pclink")}] ELSE l

\* subprocess.run(["py3dtiles", "convert", input, "--out", dir, "--overwrite"],
\* timeout=3600): py3dtiles needs its input, and overwrites the directory.
Py3dtilesOutcomes(input_exists) ==
    IF input_exists THEN {"ok", "noout", "fail", "timeout", "notfound"}
    ELSE {"fail", "notfound"}

PcRun(j) ==
    /\ pc[j] = "pc_run"
    /\ LET h == loc[j].hop
           input == IF h = 2 THEN P(j, "tempply")
                    ELSE IF loc[j].link THEN P(j, "pclink") ELSE NoPath
       IN \E o \in Py3dtilesOutcomes(input = NoPath \/ input \in fs) :
             LET G == IF o = "ok" THEN (fs \ DirContents(j, h)) \cup {TilesJson(j, h)}
                      ELSE IF o = "noout" THEN fs \ DirContents(j, h)
                      ELSE fs
                 l1 == [Created(loc[j], fs, G) EXCEPT
                           !.py3d_n = @ + 1,
                           !.rc = IF o \in {"ok", "noout"} THEN "ok" ELSE "fail",
                           !.eng_failed = (o \notin {"ok", "noout"})]
             IN IF o \in {"timeout", "notfound"}
                THEN /\ Return(j, Failure(IF o = "timeout" THEN "timeout" ELSE "exception"))
                     /\ fs' = PcFinally(l1, j, G)
                     /\ loc' = [loc EXCEPT ![j] = PcFinallyLoc(l1, j)]
                     /\ Goto(j, AfterReturn(h))
                     /\ UNCHANGED active_conversions
                ELSE /\ fs' = G
                     /\ loc' = [loc EXCEPT ![j] = l1]
                     /\ Emit(j, 80)
                     /\ Goto(j, "pc_check")
                     /\ UNCHANGED result
    /\ Thread
    /\ UNCHANGED pipeline_file

\* returncode != 0, then tileset.json exists, then callback 95 and success.
Py3dtilesJudge(rc, tileset_exists) ==
    IF rc # "ok" THEN "engine_failed"
    ELSE IF ~tileset_exists THEN "output_missing"
    ELSE "None"

\* metadata["spatialInfo"] of the tiles result: built from the bounds of the
\* file the method was given, which under the multi-hop conversion is the
\* temporary PLY.
PcSpatialInfo(r, h, has_bbox) ==
    IF has_bbox
    THEN [r EXCEPT !.spatial = IF h = 2 THEN "temp_ply" ELSE "source"]
    ELSE r

PcCheck(j) ==
    /\ pc[j] = "pc_check"
    /\ LET h == loc[j].hop
           e == Py3dtilesJudge(loc[j].rc, TilesJson(j, h) \in fs)
           l1 == [loc[j] EXCEPT !.eng_failed = @ \/ TilesJson(j, h) \notin fs]
       IN /\ IF e # "None"
             THEN /\ Return(j, Failure(e))
                  /\ UNCHANGED active_conversions
             ELSE /\ \E has_bbox \in BOOLEAN :
                       Return(j, PcSpatialInfo(
                                    Success(TilesDir(j, h), {TilesDir(j, h), TilesJson(j, h)}),
                                    h, has_bbox))
                  /\ Emit(j, 95)
          /\ fs' = PcFinally(l1, j, fs)
          /\ loc' = [loc EXCEPT ![j] = PcFinallyLoc(l1, j)]
          /\ Goto(j, AfterReturn(h))
    /\ Thread
    /\ UNCHANGED pipeline_file

\* ------------------------------------------------- _convert_e57_to_3dtiles
\* callback 5, then the first sub-conversion under its wrapper.
HopBegin(j) ==
    /\ pc[j] = "thread" /\ TypeOf(j) = "e57_to_3dtiles"
    /\ EmitRaw(j, 5)
    /\ loc' = [loc EXCEPT ![j].hop = 1]
    /\ Goto(j, "hop_ply")
    /\ Thread
    /\ UNCHANGED <<result, fs, pipeline_file>>

\* After _convert_e57_to_ply: a failure is returned (the finally clause finds
\* no temporary PLY of this call); else the PLY is copied to temp_ply,
\* callback 50, and the second sub-conversion starts under its wrapper.
HopMid(j) ==
    /\ pc[j] = "hop_mid"
    /\ IF ~result[j].success
       THEN /\ Return(j, Wrapped("ply_failed", result[j]))
            /\ fs' = fs \ {P(j, "tempply")}
            /\ loc' = [loc EXCEPT ![j].hop = 0]
            /\ Goto(j, "finish")
            /\ UNCHANGED active_conversions
       ELSE /\ fs' = fs \cup {P(j, "tempply")}
            /\ loc' = [loc EXCEPT ![j].hop = 2, ![j].rc = "none",
                                  ![j].temps = @ \cup {P(j, "tempply")},
                                  ![j].ply_spatial = result[j].spatial]
            /\ EmitRaw(j, 50)
            /\ Goto(j, "hop_tiles")
            /\ UNCHANGED result
    /\ Thread
    /\ UNCHANGED pipeline_file

\* After _convert_pointcloud_to_3dtiles: its failure is wrapped, its success
\* returned; finally: temp_ply.unlink().
\* PreserveSpatialInfo without the assignment.
PreserveSpatialInfoKeepsTiles(tiles_result, ply_spatial) == tiles_result

\* if ply_result.metadata and "spatialInfo" in ply_result.metadata:
\*     tiles_result.metadata["spatialInfo"] = ply_result.metadata["spatialInfo"]
PreserveSpatialInfo(tiles_result, ply_spatial) ==
    IF ply_spatial # "none"
    THEN [tiles_result EXCEPT !.spatial = ply_spatial]
    ELSE tiles_result

HopEnd(j) ==
    /\ pc[j] = "hop_end"
    /\ IF ~result[j].success
       THEN Return(j, Wrapped("tiles_failed", result[j]))
       ELSE Return(j, PreserveSpatialInfo(result[j], loc[j].ply_spatial))
    /\ fs' = fs \ {P(j, "tempply")}
    /\ loc' = [loc EXCEPT ![j].hop = 0, ![j].temps = @ \ {P(j, "tempply")},
                          ![j].ply_spatial = "none"]
    /\ Goto(j, "finish")
    /\ Thread
    /\ UNCHANGED <<active_conversions, pipeline_file>>

\* ----------------------------------------------------- _convert_to_3dtiles
\* output_dir.mkdir(parents=True, exist_ok=True); callback 20.
MeshBegin(j) ==
    /\ pc[j] = "thread" /\ TypeOf(j) \in MeshTypes
    /\ LET G == fs \cup {P(j, "dir")}
       IN /\ fs' = G
          /\ loc' = [loc EXCEPT ![j] = Created(@, fs, G)]
    /\ Emit(j, 20)
    /\ Goto(j, "mesh_ext")
    /\ Thread
    /\ UNCHANGED <<result, pipeline_file>>

\* The branch on the extension: _create_simple_tileset (callback 40),
\* _convert_obj_to_3dtiles (callback 5), or the failure result.
MeshExt(j) ==
    /\ pc[j] = "mesh_ext"
    /\ \E ext \in Exts :
          IF ext \in {".gltf", ".glb"}
          THEN /\ Emit(j, 40)
               /\ Goto(j, "simple_copy")
               /\ UNCHANGED result
          ELSE IF ext = ".obj"
          THEN /\ Emit(j, 5)
               /\ Goto(j, "obj_prepare")
               /\ UNCHANGED result
          ELSE /\ Return(j, Failure("unsupported_format"))
               /\ Goto(j, "finish")
               /\ UNCHANGED active_conversions
    /\ Thread
    /\ UNCHANGED <<loc, fs, pipeline_file>>

\* _create_simple_tileset: shutil.copy2(source, output_dir / source.name);
\* callback 60.
SimpleCopy(j) ==
    /\ pc[j] = "simple_copy"
    /\ LET G == fs \cup {P(j, "model")}
       IN /\ fs' = G
          /\ loc' = [loc EXCEPT ![j] = Created(@, fs, G)]
    /\ Emit(j, 60)
    /\ Goto(j, "simple_write")
    /\ Thread
    /\ UNCHANGED <<result, pipeline_file>>

\* _create_simple_tileset: tileset.json written; callback 90; success.
SimpleWrite(j) ==
    /\ pc[j] = "simple_write"
    /\ LET G == fs \cup {P(j, "tileset")}
       IN /\ fs' = G
          /\ loc' = [loc EXCEPT ![j] = Created(@, fs, G)]
    /\ Emit(j, 90)
    /\ Return(j, Success(P(j, "dir"), {P(j, "dir"), P(j, "tileset"), P(j, "model")}))
    /\ Goto(j, "finish")
    /\ Thread
    /\ UNCHANGED pipeline_file

\* ------------------------------------------------- _convert_obj_to_3dtiles
\* _extract_obj_spatial_info, then _prepare_obj_files inside try/except:
\* it returns the work directory, or raises before or after making it, and
\* the handler leaves work_dir = None; callback 10.
PrepareOutcomes == {"ok", "raise_before_mkdir", "raise_after_mkdir"}

ObjPrepare(j) ==
    /\ pc[j] = "obj_prepare"
    /\ \E geo \in BOOLEAN, o \in PrepareOutcomes :
          LET G == IF o = "raise_before_mkdir" THEN fs ELSE fs \cup {P(j, "workdir")}
          IN /\ fs' = G
             /\ loc' = [loc EXCEPT ![j].geo = geo, ![j].work_dir = (o = "ok"),
                                   ![j].temps = @ \cup (G \ fs)]
    /\ Emit(j, 10)
    /\ Goto(j, "obj_transform")
    /\ Thread
    /\ UNCHANGED <<result, pipeline_file>>

\* _transform_obj_wgs84_to_local for a geographic mesh, written to
\* (work_dir or output_dir) / "<stem>_transformed.obj"; callback 15.
\* transformed: prepared_obj = transformed_obj, which happens on success
\* only; a failed transform leaves prepared_obj naming the original file.
ObjTransform(j) ==
    /\ pc[j] = "obj_transform"
    /\ \E written \in (IF loc[j].geo THEN BOOLEAN ELSE {FALSE}) :
          LET G == IF written /\ ~loc[j].work_dir
                   THEN fs \cup {P(j, "transformed")} ELSE fs
          IN /\ fs' = G
             /\ loc' = [loc EXCEPT ![j] = [Created(@, fs, G) EXCEPT !.transformed = written]]
    /\ Emit(j, 15)
    /\ Goto(j, "obj_primary")
    /\ Thread
    /\ UNCHANGED <<result, pipeline_file>>

\* One gltf-transform call: exit 0 with its output, a non-zero exit without
\* or with an output file, or an exception (timeout, npx missing).
StepOutcomes == {"ok", "fail", "partial", "raise"}

Rename(F, a, b) == (F \ {a}) \cup {b}

\* The gltf-transform steps after a successful obj2gltf: resize, webp,
\* center, with the intermediate files removed and the final GLB renamed
\* into place; an exception falls back to the uncompressed GLB.
PrimaryPost(F, j, r, w, c) ==
    LET unc == P(j, "unc")
        glb == P(j, "glb")
        resized == P(j, "resized")
        compressed == P(j, "compressed")
        centered == P(j, "centered")
        fallback(G) == IF unc \in G THEN Rename(G, unc, glb) ELSE G
        F1 == IF r \in {"ok", "partial"} THEN F \cup {resized} ELSE F
        resize_input == IF r = "ok" THEN resized ELSE unc
        F2 == IF w \in {"ok", "partial"} THEN F1 \cup {compressed} ELSE F1
        F3 == F2 \ {resized}
        compress_input == IF w = "ok" THEN compressed ELSE resize_input
        F4 == IF c \in {"ok", "partial"} /\ compress_input \in F3
              THEN F3 \cup {centered} ELSE F3
        F5 == F4 \ {compressed}
    IN IF r = "raise" THEN fallback(F)
       ELSE IF w = "raise" THEN fallback(F1)
       ELSE IF c = "raise" THEN fallback(F3)
       ELSE IF c = "ok" /\ centered \in F5 THEN Rename(F5, centered, glb) \ {unc}
       ELSE IF compress_input \in F5 THEN Rename(F5, compress_input, glb)
       ELSE fallback(F5)

\* Whether the first link sets converted after a successful obj2gltf: on
\* both branches of the centering result, and in the exception handler when
\* the uncompressed GLB exists.
PrimaryConverted(F, j, r, w, c) ==
    "raise" \in {r, w, c} => P(j, "unc") \in F

\* An engine's exit code 0 together with its output file on disk.
EngineOk(o, out, F) == o \in {"ok", "noout"} /\ out \in F

\* Method 1: obj2gltf, then the gltf-transform steps; callback 50.
ObjPrimary(j) ==
    /\ pc[j] = "obj_primary"
    /\ \E o \in EngineOutcomes, r \in StepOutcomes, w \in StepOutcomes, c \in StepOutcomes :
          LET FA == IF Wrote(o) THEN fs \cup {P(j, "unc")} ELSE fs
              started == EngineOk(o, P(j, "unc"), FA)
              G == IF started THEN PrimaryPost(FA, j, r, w, c) ELSE FA
          IN /\ fs' = G
             /\ loc' = [loc EXCEPT ![j] =
                          [Created(@, fs, G) EXCEPT
                              !.tried = Append(@, "obj2gltf"),
                              !.eng_ok = IF started THEN @ \cup {"obj2gltf"} ELSE @,
                              !.converted = started /\ PrimaryConverted(FA, j, r, w, c)]]
    /\ Emit(j, 50)
    /\ Goto(j, "obj_secondary")
    /\ Thread
    /\ UNCHANGED <<result, pipeline_file>>

\* After a successful gltfpack: center, unlink the gltfpack output, rename
\* the centered file into place, else whichever of the two still exists.
SecondaryPost(F, j, c) ==
    LET gp == P(j, "gltfpack")
        glb == P(j, "glb")
        centered == P(j, "gpcentered")
        F1 == IF c \in {"ok", "partial"} THEN F \cup {centered} ELSE F
        F2 == F1 \ {gp}
    IN IF c = "raise" THEN F
       ELSE IF c = "ok" THEN Rename(F2, centered, glb)
       ELSE IF gp \in F2 THEN Rename(F2, gp, glb)
       ELSE IF centered \in F2 THEN Rename(F2, centered, glb)
       ELSE F2

\* converted after a successful gltfpack: set on both branches of the
\* centering result, left unset when the centering call raises.
SecondaryConverted(c) == c # "raise"

\* Method 2: gltfpack, tried when method 1 did not convert; callback 60.
ObjSecondary(j) ==
    /\ pc[j] = "obj_secondary"
    /\ IF loc[j].converted
       THEN UNCHANGED <<fs, loc>>
       ELSE \E o \in EngineOutcomes, c \in StepOutcomes :
               LET FA == IF Wrote(o) THEN fs \cup {P(j, "gltfpack")} ELSE fs
                   started == EngineOk(o, P(j, "gltfpack"), FA)
                   G == IF started THEN SecondaryPost(FA, j, c) ELSE FA
               IN /\ fs' = G
                  /\ loc' = [loc EXCEPT ![j] =
                               [Created(@, fs, G) EXCEPT
                                   !.tried = Append(@, "gltfpack"),
                                   !.eng_ok = IF started THEN @ \cup {"gltfpack"} ELSE @,
                                   !.converted = started /\ SecondaryConverted(c)]]
    /\ Emit(j, 60)
    /\ Goto(j, "obj_cleanup")
    /\ Thread
    /\ UNCHANGED <<result, pipeline_file>>

\* if work_dir and work_dir.exists(): shutil.rmtree(work_dir); callback 70.
ObjCleanup(j) ==
    /\ pc[j] = "obj_cleanup"
    /\ IF loc[j].work_dir
       THEN /\ fs' = fs \ {P(j, "workdir")}
            /\ loc' = [loc EXCEPT ![j].temps = @ \ {P(j, "workdir")}]
       ELSE UNCHANGED <<fs, loc>>
    /\ Emit(j, 70)
    /\ Goto(j, "obj_tileset")
    /\ Thread
    /\ UNCHANGED <<result, pipeline_file>>

\* if converted: _create_glb_tileset (callback 80), else the raw
\* passthrough _create_obj_tileset (callback 40).
ObjTileset(j) ==
    /\ pc[j] = "obj_tileset"
    /\ IF loc[j].converted
       THEN /\ Emit(j, 80)
            /\ Goto(j, "glb_write")
            /\ UNCHANGED loc
       ELSE /\ Emit(j, 40)
            /\ Goto(j, "objts_copy")
            /\ loc' = [loc EXCEPT ![j].tried = Append(@, "raw")]
    /\ Thread
    /\ UNCHANGED <<result, fs, pipeline_file>>

\* _create_glb_tileset: tileset.json naming the GLB; callback 95; success.
GlbWrite(j) ==
    /\ pc[j] = "glb_write"
    /\ LET G == fs \cup {P(j, "tileset")}
       IN /\ fs' = G
          /\ loc' = [loc EXCEPT ![j] = Created(@, fs, G)]
    /\ Emit(j, 95)
    /\ Return(j, Success(P(j, "dir"), {P(j, "dir"), P(j, "tileset"), P(j, "glb")}))
    /\ Goto(j, "finish")
    /\ Thread
    /\ UNCHANGED pipeline_file

\* _create_obj_tileset: the OBJ copied into the output directory; callback 70.
ObjtsCopy(j) ==
    /\ pc[j] = "objts_copy"
    /\ LET G == fs \cup {P(j, "model")}
       IN /\ fs' = G
          /\ loc' = [loc EXCEPT ![j] = Created(@, fs, G)]
    /\ Emit(j, 70)
    /\ Goto(j, "objts_write")
    /\ Thread
    /\ UNCHANGED <<result, pipeline_file>>

\* _create_obj_tileset: tileset.json naming the OBJ; callback 90; success.
ObjtsWrite(j) ==
    /\ pc[j] = "objts_write"
    /\ LET G == fs \cup {P(j, "tileset")}
       IN /\ fs' = G
          /\ loc' = [loc EXCEPT ![j] = Created(@, fs, G)]
    /\ Emit(j, 90)
    /\ Return(j, Success(P(j, "dir"), {P(j, "dir"), P(j, "tileset"), P(j, "model")}))
    /\ Goto(j, "finish")
    /\ Thread
    /\ UNCHANGED pipeline_file

\* ---------------------------------------------------------- the system
JobStep(j) ==
    \/ RunStart(j)
    \/ RunFinish(j)
    \/ RunExcept(j)
    \/ ConvertSourceMissing(j)
    \/ ConvertRaises(j)
    \/ ConvertE57ToPly(j)
    \/ ConvertE57ToLas(j)
    \/ ConvertToCopc(j)
    \/ PdalWrite(j)
    \/ PdalRun(j)
    \/ PdalCheck(j)
    \/ PdalFinallyExists(j)
    \/ PdalFinallyUnlink(j)
    \/ PcBegin(j)
    \/ PcExt(j)
    \/ PcDetect(j)
    \/ PcCmd(j)
    \/ PcRun(j)
    \/ PcCheck(j)
    \/ HopBegin(j)
    \/ HopMid(j)
    \/ HopEnd(j)
    \/ MeshBegin(j)
    \/ MeshExt(j)
    \/ SimpleCopy(j)
    \/ SimpleWrite(j)
    \/ ObjPrepare(j)
    \/ ObjTransform(j)
    \/ ObjPrimary(j)
    \/ ObjSecondary(j)
    \/ ObjCleanup(j)
    \/ ObjTileset(j)
    \/ GlbWrite(j)
    \/ ObjtsCopy(j)
    \/ ObjtsWrite(j)

Next == \E j \in JobIds : Submit(j) \/ JobStep(j)

Spec == Init /\ [][Next]_vars

\* Every scheduled task is started and every started task runs on: the event
\* loop and the thread pool are fair, and each engine call returns or times
\* out (every subprocess.run of a conversion carries a timeout).
FairSpec == Spec /\ \A j \in JobIds : WF_vars(JobStep(j))

\* ------------------------------------------------ the planner on its own
\* One call of _convert_e57_to_ply up to the pipeline it hands to PDAL, on
\* every sample input: the summary pdal info gave for the source (or its
\* failure), then the classification, then the colour probe, the options
\* and the stages built from them.  The OBJ classifier is applied to the
\* same extents.
PlanInputs ==
    {[NoPlan EXCEPT !.at = "input", !.probe_ok = TRUE,
                    !.bbox = Bbox(x, y, z), !.num_points = n] :
        x \in XExtents, y \in YExtents, z \in ZExtents, n \in PointCounts}
    \cup {[NoPlan EXCEPT !.at = "input"]}

PlanInit == Idle /\ plan \in PlanInputs

DetectCoordinateSystem ==
    /\ plan.at = "input"
    /\ plan' = [plan EXCEPT
                  !.at = "detected",
                  !.coord_info = _detect_coordinate_system(plan.probe_ok, plan.bbox,
                                                           plan.num_points)]
    /\ UNCHANGED service

\* The vertex extents of an OBJ file hold no NaN: min() and max() keep
\* their first argument when the comparison with a NaN is false.
ExtractObjSpatialInfo ==
    /\ plan.at = "input"
    /\ plan.probe_ok
    /\ \A v \in Coords(plan.bbox) : ~isnan(v)
    /\ plan' = [plan EXCEPT !.at = "obj_done",
                            !.obj_info = _extract_obj_spatial_info(plan.bbox)]
    /\ UNCHANGED service

BuildPipeline ==
    /\ plan.at = "detected"
    /\ \E c \in ColorInfos, opt \in TransformCoordsOptions :
          plan' = [plan EXCEPT
                     !.at = "planned",
                     !.has_color = c.has_color,
                     !.is_16bit = c.is_16bit,
                     !.transform_coords = opt,
                     !.pipeline = PipelineStages(plan.coord_info, c.has_color,
                                                 c.is_16bit, opt)]
    /\ UNCHANGED service

\* A second call with the same source, summary, colour probe and options.
BuildPipelineAgain ==
    /\ plan.at = "planned"
    /\ plan' = [plan EXCEPT
                  !.at = "rebuilt",
                  !.pipeline_again = PipelineStages(plan.coord_info, plan.has_color,
                                                    plan.is_16bit, plan.transform_coords)]
    /\ UNCHANGED service

\* _convert_e57_to_3dtiles, step 1: the caller's options with
\* "transform_coords" overridden by False go to _convert_e57_to_ply.
BuildIntermediatePipeline ==
    /\ plan.at = "detected"
    /\ \E c \in ColorInfos, opt \in TransformCoordsOptions :
          plan' = [plan EXCEPT
                     !.at = "hop_planned",
                     !.has_color = c.has_color,
                     !.is_16bit = c.is_16bit,
                     !.transform_coords = opt,
                     !.pipeline = PipelineStages(plan.coord_info, c.has_color,
                                                 c.is_16bit, "false")]
    /\ UNCHANGED service

\* The tileset of the OBJ once an engine has converted it to GLB.
CreateGlbTileset ==
    /\ plan.at = "obj_done"
    /\ plan' = [plan EXCEPT !.at = "tileset",
                            !.tileset = _create_glb_tileset(plan.obj_info, plan.bbox)]
    /\ UNCHANGED service

PlanNext ==
    \/ DetectCoordinateSystem
    \/ ExtractObjSpatialInfo
    \/ CreateGlbTileset
    \/ BuildIntermediatePipeline
    \/ BuildPipeline
    \/ BuildPipelineAgain

PlanSpec == PlanInit /\ [][PlanNext]_vars

\* ------------------------------------------------------------- properties
Terminal == {"ready", "failed"}
Range(q) == {q[i] : i \in DOMAIN q}

\* C1: a job's status changes only pending -> converting -> ready or failed;
\* ready and failed are left only by a new accepted request for the same job
\* identifier (which schedules a task), and pending never goes directly to
\* a terminal status.
C1_StatusTransitions ==
    [][\A j \in JobIds :
          LET a == active_conversions[j].status
              b == active_conversions'[j].status
          IN a # b =>
                \/ b = "pending" /\ a \in {"none"} \cup Terminal
                               /\ scheduled'[j] = scheduled[j] + 1
                \/ a = "pending" /\ b = "converting"
                \/ a = "converting" /\ b \in Terminal]_vars

C1_Witness ==
    \E j, k \in JobIds :
        /\ active_conversions[j].status = "ready"
        /\ active_conversions[k].status = "failed"

\* C2: per job identifier at most one attempt exists (a task waiting to start
\* or a task running), and a submission for a job whose status is pending or
\* converting answers with that status, adds no task and leaves the table as
\* it is, whether or not the source file is found.
C2_OneAttemptPerJob ==
    \A j \in JobIds :
        /\ scheduled[j] + (IF pc[j] # "idle" THEN 1 ELSE 0) <= 1
        /\ active_conversions[j].status \in {"pending", "converting"} =>
              \A found \in BOOLEAN :
                  /\ Response(active_conversions, j, found).status
                        = active_conversions[j].status
                  /\ Response(active_conversions, j, found).message = "already_running"
                  /\ TableAfter(active_conversions, j, found) = active_conversions
                  /\ TasksAfter(scheduled, active_conversions, j, found) = scheduled

C2_Witness ==
    \E j \in JobIds :
        /\ active_conversions[j].status = "converting"
        /\ pc[j] \notin {"idle", "thread"}
        /\ submits + Weight(j) <= MaxSubmits

\* C3: under FairSpec no job stays pending or converting forever: every
\* job is, again and again, neither pending nor converting, which for a job
\* that was accepted means ready or failed (its entry is never removed).
C3_EventuallyTerminal ==
    \A j \in JobIds :
        []<>(active_conversions[j].status \notin {"pending", "converting"})

C3_Witness ==
    \E j, k \in JobIds :
        /\ active_conversions[j].status \in Terminal
        /\ pc[j] = "idle" /\ scheduled[j] = 0
        /\ active_conversions[k].status = "pending"

\* C4: once a conversion has emitted a progress value, every later value it
\* emits while the job is converting is at least the stored one.
C4_ProgressMonotone ==
    [][\A j \in JobIds :
          (/\ pc[j] \notin {"idle", "thread"}
           /\ active_conversions[j].status = "converting"
           /\ active_conversions'[j].status = "converting")
          => active_conversions'[j].progress >= active_conversions[j].progress]_vars

\* C5: the links of the OBJ chain are tried in the order obj2gltf, gltfpack,
\* raw passthrough; gltfpack is tried exactly when obj2gltf did not succeed,
\* and raw passthrough exactly when neither engine succeeded.
C5_FallbackChain ==
    \A j \in JobIds :
        LET t == loc[j].tried
            ok == loc[j].eng_ok
        IN /\ t \in {<<>>, <<"obj2gltf">>, <<"obj2gltf", "gltfpack">>,
                     <<"obj2gltf", "raw">>, <<"obj2gltf", "gltfpack", "raw">>}
           /\ "gltfpack" \in Range(t) => "obj2gltf" \notin ok
           /\ pc[j] \in {"obj_cleanup", "obj_tileset"} /\ "obj2gltf" \notin ok
                 => "gltfpack" \in Range(t)
           /\ "raw" \in Range(t) => ok = {}
           /\ pc[j] = "glb_write" => ok # {}

\* C6: whenever a conversion method returns a result with success = true,
\* every artifact the result names exists on disk.
C6_SuccessHasArtifacts ==
    [][\A j \in JobIds :
          (result'[j] # result[j] /\ result'[j].success)
              => result'[j].refs \subseteq fs']_vars

\* C7: every pdal invocation of a job executes the pipeline document that
\* job wrote.
C7_OwnPipeline ==
    \A j \in JobIds : loc[j].pdal_n > 0 => loc[j].ran = j

\* Temporary paths job j created that are still on disk; the pipeline file
\* counts while it holds j's document.
Leftover(j) ==
    {p \in loc[j].temps : IF p = PipelinePath THEN pipeline_file = j ELSE p \in fs}

\* C8: when a job becomes ready or failed, no temporary file or working
\* directory created for it is left on disk.
C8_TempsRemoved ==
    [][\A j \in JobIds :
          (active_conversions[j].status = "converting"
              /\ active_conversions'[j].status \in Terminal)
          => Leftover(j) = {}]_vars

\* Intermediate GLB files of the mesh chain.
Intermediates(j) ==
    {P(j, k) : k \in {"unc", "resized", "compressed", "centered", "gltfpack", "gpcentered"}}

\* C9: when a conversion method returns a failure, nothing the request
\* created under the output directory is left on disk; when a later link of
\* the mesh chain is tried, no intermediate GLB of the earlier links is left.
C9_FailureLeavesNothing ==
    [][\A j \in JobIds :
          /\ (result'[j] # result[j] /\ ~result'[j].success /\ result'[j].error # "None")
                => loc'[j].outs \cap fs' = {}
          /\ (Len(loc'[j].tried) > Len(loc[j].tried) /\ Len(loc[j].tried) > 0)
                => loc[j].outs \cap fs \cap Intermediates(j) = {}]_vars

\* C10: one request launches pdal pipeline at most once and py3dtiles at
\* most once, and when an engine exited non-zero, timed out or left its
\* artifact missing, convert returns success = false with an error.
C10_NoRetry ==
    \A j \in JobIds :
        /\ loc[j].pdal_n <= 1
        /\ loc[j].py3d_n <= 1
        /\ (pc[j] = "finish" /\ loc[j].eng_failed)
              => (~result[j].success /\ result[j].error # "None")

C10_Witness ==
    \E j \in JobIds :
        /\ pc[j] = "finish"
        /\ loc[j].eng_failed
        /\ loc[j].pdal_n + loc[j].py3d_n > 0
        /\ ~result[j].success

\* C11: convert never lets a fault escape (no job's conversion ends in the
\* exception handler of run_conversion instead of returning a result), and a
\* result with success = false ends the job in status failed with the
\* result's error recorded in its entry.
C11_NoFaultEscapes ==
    [][\A j \in JobIds :
          /\ pc'[j] # "fault"
          /\ (pc[j] = "finish" /\ pc'[j] = "idle" /\ ~result[j].success)
                => /\ active_conversions'[j].status = "failed"
                   /\ active_conversions'[j].error = result[j].error]_vars

\* C13: when an E57 -> 3D Tiles conversion returns, with success or failure,
\* the intermediate PLY of its first sub-conversion exists neither in the
\* temp directory (temp_ply) nor in the output directory (<stem>.ply).
C13_IntermediatePlyRemoved ==
    [][\A j \in JobIds :
          (TypeOf(j) = "e57_to_3dtiles" /\ pc[j] \in {"hop_mid", "hop_end"}
              /\ pc'[j] = "finish")
             => /\ P(j, "tempply") \notin fs'
                /\ OutputOf(j) \notin fs']_vars

\* C12: when an E57 -> 3D Tiles conversion succeeds and its first
\* sub-conversion (E57 -> PLY) produced a spatialInfo record, the final
\* result carries that record and not the one computed from the
\* intermediate file.
C12_PlySpatialInfoKept ==
    [][\A j \in JobIds :
          (pc[j] = "hop_end" /\ pc'[j] = "finish" /\ result'[j].success
              /\ loc[j].ply_spatial # "none")
             => /\ result'[j].spatial = loc[j].ply_spatial
                /\ result'[j].spatial # "temp_ply"]_vars

C12_Witness ==
    \E j \in JobIds :
       /\ TypeOf(j) = "e57_to_3dtiles"
       /\ pc[j] = "finish"
       /\ result[j].success
       /\ result[j].spatial = "e57"

\* --------------------------------------------------- the planner's claims
Stages(type) == {i \in DOMAIN plan.pipeline : plan.pipeline[i].type = type}
StagesOf(type, arg) ==
    {i \in Stages(type) : plan.pipeline[i].arg = arg}
Sampling == Stages("filters.decimation") \cup Stages("filters.voxeldownsize")
Affine == Stages("filters.transformation")
Coloring == Stages("filters.assign")
NonFinite(b) == \E v \in Coords(b) : isinf(v) \/ isnan(v)

\* C14: every pipeline built for E57 -> PLY has exactly one reader, which is
\* its first stage, and exactly one writer, which is its last; every sampling
\* stage precedes every affine transformation, the normalization affine
\* precedes the up-axis affine, and every colour assignment follows every
\* affine transformation.
C14_StageOrder ==
    plan.at = "planned" =>
       /\ Stages("readers.e57") = {1}
       /\ Stages("writers.ply") = {Len(plan.pipeline)}
       /\ \A i \in Sampling, k \in Affine : i < k
       /\ \A i \in StagesOf("filters.transformation", "normalize"),
             k \in StagesOf("filters.transformation", "z_up_to_y_up") : i < k
       /\ \A i \in Affine, k \in Coloring : i < k

C14_Witness ==
    /\ plan.at = "planned"
    /\ Sampling # {}
    /\ StagesOf("filters.transformation", "normalize") # {}
    /\ StagesOf("filters.transformation", "z_up_to_y_up") # {}
    /\ Coloring # {}

\* C15: the classifier reports one variant per bounding box: KoreaTM is never
\* reported together with Projected, and a geographic variant is never
\* reported together with KoreaTM or Projected (point-cloud classifier and
\* OBJ classifier).
C15_OneVariant ==
    /\ plan.at = "detected" =>
          /\ ~(plan.coord_info.is_korea_tm /\ plan.coord_info.is_projected)
          /\ ~(plan.coord_info.is_geographic
                  /\ (plan.coord_info.is_korea_tm \/ plan.coord_info.is_projected))
    /\ plan.at = "obj_done" =>
          /\ ~(plan.obj_info.is_korea_tm /\ plan.obj_info.is_projected)
          /\ ~(plan.obj_info.is_geographic
                  /\ (plan.obj_info.is_korea_tm \/ plan.obj_info.is_projected))

\* C16: without a transform_coords option the up-axis affine is in the
\* pipeline only for sources classified KoreaTM or Projected, and never for
\* a source classified geographic (swapped or standard).
C16_UpAxisOnlyProjected ==
    (plan.at = "planned" /\ plan.transform_coords = "absent"
        /\ StagesOf("filters.transformation", "z_up_to_y_up") # {})
       => /\ plan.coord_info.is_korea_tm \/ plan.coord_info.is_projected
          /\ ~plan.coord_info.is_geographic

\* validBounds of the source as the code decides it: the classifier's
\* bounds_valid and the planner's has_valid_bounds both hold.
ValidBounds == bounds_valid(plan.bbox) /\ has_valid_bounds(plan.coord_info)

DegenerateAxis(b) ==
    \/ fle(x_range(b), Fin(0, 1))
    \/ fle(y_range(b), Fin(0, 1))
    \/ fle(z_range(b), Fin(0, 1))

\* C17: validBounds is false whenever one of the six bounds is infinite or
\* NaN or the range of an axis (X, Y or Z) is <= 1e-4, and whenever
\* validBounds is false the pipeline has no normalization affine.
C17_ValidBounds ==
    (plan.at = "planned" /\ plan.probe_ok) =>
       /\ (NonFinite(plan.bbox) \/ DegenerateAxis(plan.bbox)) => ~ValidBounds
       /\ ~ValidBounds => StagesOf("filters.transformation", "normalize") = {}

\* C18: when the bounds are not valid, which includes a bounding box with a
\* single infinite or NaN coordinate, the classifier reports Unknown:
\* is_geographic, is_swapped, is_korea_tm and is_projected are all false.
C18_InvalidIsUnknown ==
    (plan.at = "detected" /\ plan.probe_ok
        /\ (~bounds_valid(plan.bbox) \/ NonFinite(plan.bbox)))
       => /\ ~plan.coord_info.is_geographic
          /\ ~plan.coord_info.is_swapped
          /\ ~plan.coord_info.is_korea_tm
          /\ ~plan.coord_info.is_projected

\* C19: when the source's bounding box holds an infinite or NaN coordinate,
\* the pipeline has neither a normalization affine nor a height-ramp colour
\* stage.
C19_NonFiniteSkipsNormalization ==
    (plan.at = "planned" /\ plan.probe_ok /\ NonFinite(plan.bbox))
       => /\ StagesOf("filters.transformation", "normalize") = {}
          /\ StagesOf("filters.assign", "height_ramp") = {}

C19_Witness ==
    /\ plan.at = "planned"
    /\ isnan(plan.bbox.maxz)
    /\ plan.coord_info.is_geographic
    /\ ~plan.has_color
    /\ StagesOf("filters.assign", "flat_150_180_210") # {}

\* C20: exactly one of the four colour branches is taken: 16-bit colour is
\* scaled by /256, 8-bit colour is passed through without a stage, no colour
\* on normalized geometry gets the height ramp, no colour otherwise gets the
\* flat colour; the pipeline has at most one colour assignment, that of the
\* branch taken.
C20_ColorBranch ==
    plan.at = "planned" =>
       LET normalized == StagesOf("filters.transformation", "normalize") # {}
           only(arg) == /\ Cardinality(Coloring) = 1
                        /\ StagesOf("filters.assign", arg) = Coloring
       IN /\ (plan.has_color /\ plan.is_16bit) => only("scale_256")
          /\ (plan.has_color /\ ~plan.is_16bit) => Coloring = {}
          /\ (~plan.has_color /\ normalized) => only("height_ramp")
          /\ (~plan.has_color /\ ~normalized) => only("flat_150_180_210")

C20_Witness ==
    /\ plan.at = "planned"
    /\ plan.has_color /\ ~plan.is_16bit
    /\ StagesOf("filters.transformation", "normalize") # {}
    /\ Coloring = {}

\* C21 as stated: the writer's dimension list is X,Y,Z,Red,Green,Blue if a
\* colour-assignment stage is in the pipeline, and X,Y,Z otherwise.
C21_DimsFollowColorStage ==
    plan.at = "planned" =>
       plan.pipeline[Len(plan.pipeline)].arg =
          (IF Coloring # {} THEN "X,Y,Z,Red,Green,Blue" ELSE "X,Y,Z")

\* C21, amended: the writer's dimension list is X,Y,Z,Red,Green,Blue for
\* every pipeline: with a colour-assignment stage, and also for an 8-bit
\* colour source, whose colours pass through without such a stage.
C21_DimsAlwaysColor ==
    plan.at = "planned" =>
       /\ plan.pipeline[Len(plan.pipeline)].type = "writers.ply"
       /\ plan.pipeline[Len(plan.pipeline)].arg = "X,Y,Z,Red,Green,Blue"

C21_Witness ==
    /\ plan.at = "planned"
    /\ plan.has_color /\ ~plan.is_16bit
    /\ Coloring = {}
    /\ plan.pipeline[Len(plan.pipeline)].arg = "X,Y,Z,Red,Green,Blue"

\* C22: whenever a decimation stage is in the pipeline (point count above
\* 500000 with a geographic or unknown classification), its step is
\* ceil(point_count / 500000).
C22_DecimationStepIsCeil ==
    plan.at = "planned" =>
       \A i \in Stages("filters.decimation") :
          /\ plan.coord_info.point_count > 500000
          /\ plan.pipeline[i].step = (plan.coord_info.point_count + 499999) \div 500000

\* C23: the pipeline has at most one sampling stage, chosen by the
\* classification (geographic before KoreaTM/Projected before unknown) and
\* the point count: geographic above 500000 points: decimation; geographic
\* otherwise: none; KoreaTM/Projected: voxel grid with the default cell 0.05;
\* unknown above 500000 points: decimation; unknown otherwise: voxel grid
\* with cell 0.05; no voxel grid for a geographic source.
C23_SamplingChoice ==
    plan.at = "planned" =>
       LET ci == plan.coord_info
           geo == ci.is_geographic
           proj == ~geo /\ (ci.is_korea_tm \/ ci.is_projected)
           unknown == ~geo /\ ~proj
           large == ci.point_count > 500000
           decimation == /\ Cardinality(Sampling) = 1
                         /\ Sampling = Stages("filters.decimation")
           voxel == /\ Cardinality(Sampling) = 1
                    /\ Sampling = StagesOf("filters.voxeldownsize", "0.05")
       IN /\ Cardinality(Sampling) <= 1
          /\ (geo /\ large) => decimation
          /\ (geo /\ ~large) => Sampling = {}
          /\ proj => voxel
          /\ (unknown /\ large) => decimation
          /\ (unknown /\ ~large) => voxel
          /\ geo => Stages("filters.voxeldownsize") = {}

C23_Witness ==
    /\ plan.at = "planned"
    /\ plan.coord_info.is_geographic
    /\ plan.coord_info.point_count = 500000
    /\ Sampling = {}

\* The bounding box minX=-10, maxX=10, minY=-5, maxY=5, minZ=0, maxZ=100.
BoxOfC24 ==
    plan.bbox = Bbox(<<Num(-10), Num(10)>>, <<Num(-5), Num(5)>>, <<Num(0), Num(100)>>)

\* C24 as stated: that bounding box is classified StandardGeographic
\* (is_geographic without is_swapped).
C24_ClassifiedStandardGeographic ==
    (plan.at = "detected" /\ BoxOfC24)
       => plan.coord_info.is_geographic /\ ~plan.coord_info.is_swapped

\* C24, amended: that bounding box has an X range of 20 and a Y range of 10,
\* neither below 10, and is classified Unknown: no flag is set.
C24_ClassifiedUnknown ==
    (plan.at = "detected" /\ BoxOfC24)
       => /\ ~plan.coord_info.is_geographic
          /\ ~plan.coord_info.is_swapped
          /\ ~plan.coord_info.is_korea_tm
          /\ ~plan.coord_info.is_projected

C24_Witness ==
    /\ plan.at = "detected"
    /\ BoxOfC24
    /\ plan.coord_info.has_bbox
    /\ ~plan.coord_info.is_geographic

\* C25: a bounding box whose X range is exactly 1.0 with minZ = maxZ = 45 is
\* not classified SwappedGeographic; the range tests are strict, so a box
\* classified SwappedGeographic has X and Y ranges strictly below 1.
C25_SwappedIsStrict ==
    plan.at = "detected" =>
       /\ (x_range(plan.bbox) = Num(1) /\ plan.bbox.minz = Num(45)
             /\ plan.bbox.maxz = Num(45)) => ~plan.coord_info.is_swapped
       /\ plan.coord_info.is_swapped
             => flt(x_range(plan.bbox), Num(1)) /\ flt(y_range(plan.bbox), Num(1))

C25_Witness ==
    /\ plan.at = "detected"
    /\ x_range(plan.bbox) = Num(1)
    /\ flt(y_range(plan.bbox), Num(1)) /\ flt(Fin(0, 1), y_range(plan.bbox))
    /\ plan.bbox.minz = Num(45) /\ plan.bbox.maxz = Num(45)
    /\ ~plan.coord_info.is_swapped

\* C26: whenever the bounds are valid and the normalization affine is in the
\* pipeline, it maps each axis minimum of the bounding box to -50 and each
\* axis maximum to +50.
C26_NormalizationRoundTrip ==
    (plan.at = "planned" /\ StagesOf("filters.transformation", "normalize") # {})
       => LET b == plan.coord_info.bbox
          IN /\ NormalizedCoord(b.minx, b.minx, b.maxx) = -50
             /\ NormalizedCoord(b.maxx, b.minx, b.maxx) = 50
             /\ NormalizedCoord(b.miny, b.miny, b.maxy) = -50
             /\ NormalizedCoord(b.maxy, b.miny, b.maxy) = 50
             /\ NormalizedCoord(b.minz, b.minz, b.maxz) = -50
             /\ NormalizedCoord(b.maxz, b.minz, b.maxz) = 50

C28_EnginesGetTransformedMesh ==
    \A j \in JobIds :
       (loc[j].geo /\ loc[j].tried # <<>>) => loc[j].transformed

\* C29: every progress value the callback passes on and every progress
\* value stored in a job's entry is an integer in 0..100, the rescaled
\* values of the two sub-conversions of a multi-hop conversion included.
C29_ProgressInRange ==
    \A j \in JobIds : active_conversions[j].progress \in 0..100

C29_Witness ==
    \E j \in JobIds :
       /\ TypeOf(j) = "e57_to_3dtiles"
       /\ loc[j].hop = 2
       /\ active_conversions[j].progress = 97

\* C30: for a geographic mesh converted to GLB the tileset root has a
\* placement transform and its bounding volume is a box centred at (0,0,0)
\* whose three half-axis lengths are each at least 10; no region is emitted
\* on this path, and for a non-geographic mesh no transform is emitted.
C30_GlbTilesetRoot ==
    plan.at = "tileset" =>
       /\ plan.tileset.volume = "box"
       /\ plan.obj_info.is_geographic
             => /\ plan.tileset.transform
                /\ plan.tileset.center = <<0, 0, 0>>
                /\ \A i \in 1..3 : fle(Num(10), plan.tileset.half[i])
       /\ ~plan.obj_info.is_geographic => ~plan.tileset.transform

C30_Witness ==
    /\ plan.at = "tileset"
    /\ plan.obj_info.is_geographic
    /\ plan.tileset.transform
    /\ plan.tileset.half[1] = Num(10)
    /\ flt(Num(10), plan.tileset.half[2])

\* The centre of the vertex extents is lon = 0, lat = 0 and the extents are
\* flat in Z, so that alt = 0.
CenterAtOrigin ==
    /\ \A v \in Coords(plan.bbox) : v.k = "fin"
    /\ Ticks(plan.bbox.minx) + Ticks(plan.bbox.maxx) = 0
    /\ Ticks(plan.bbox.miny) + Ticks(plan.bbox.maxy) = 0
    /\ plan.bbox.minz = plan.bbox.maxz

\* C31: for lon = 0, lat = 0, alt = 0 the ECEF translation of the tile
\* transform is (a, 0, 0) with a = 6378137.0.
C31_EcefOfOrigin ==
    (plan.at = "tileset" /\ plan.tileset.transform /\ CenterAtOrigin)
        => plan.tileset.translation = <<Num(6378137), Num(0), Num(0)>>

C31_Witness ==
    /\ plan.at = "tileset"
    /\ plan.tileset.transform
    /\ CenterAtOrigin
    /\ plan.tileset.translation[1] = Num(6378137)

\* C32: whenever the height-ramp colour stage is emitted, a normalization
\* affine precedes it, and no stage between the two replaces Z by another
\* axis (the up-axis matrix sets Y' = Z and Z' = -Y), so that the Z the
\* ramp reads is the source's elevation normalized into [-50, 50].
C32_HeightRampReadsElevation ==
    plan.at = "planned" =>
       \A i \in StagesOf("filters.assign", "height_ramp") :
          /\ \E j \in StagesOf("filters.transformation", "normalize") : j < i
          /\ \A k \in StagesOf("filters.transformation", "z_up_to_y_up") : i < k

\* C33: the first step of an E57 -> 3D Tiles conversion keeps the original
\* coordinates: its pipeline has no affine transformation stage, whatever
\* the classification of the source and the caller's transform_coords.
C33_IntermediateKeepsCoordinates ==
    plan.at = "hop_planned" => Affine = {}

\* C34: in an E57 -> 3D Tiles conversion the second sub-conversion is
\* entered only from a first sub-conversion that returned success, and
\* py3dtiles is launched only inside the second sub-conversion; when the
\* first one fails, the conversion returns a failure that carries the first
\* one's error, and py3dtiles has not been launched.
C34_SecondAfterFirstSuccess ==
    [][\A j \in JobIds :
          /\ (loc[j].hop # 2 /\ loc'[j].hop = 2)
                => (pc[j] = "hop_mid" /\ result[j].success)
          /\ (TypeOf(j) = "e57_to_3dtiles" /\ loc'[j].py3d_n > loc[j].py3d_n)
                => loc[j].hop = 2
          /\ (pc[j] = "hop_mid" /\ ~result[j].success /\ pc'[j] # "hop_mid")
                => /\ pc'[j] = "finish"
                   /\ ~result'[j].success
                   /\ result'[j].error = "ply_failed"
                   /\ result[j].error # "None"
                   /\ result'[j].cause = result[j].error
                   /\ loc'[j].py3d_n = 0]_vars

C34_Witness ==
    \E j \in JobIds :
       /\ TypeOf(j) = "e57_to_3dtiles"
       /\ pc[j] = "finish"
       /\ result[j].error = "ply_failed"
       /\ result[j].cause \notin {"None", "ply_failed"}
       /\ loc[j].py3d_n = 0
       /\ loc[j].pdal_n > 0

\* The output artifacts, temporary links and directories job j has created
\* and not yet handed over (pipeline.json, which every job shares, is left
\* out), and the paths a step creates or removes.
Artifacts(j) == (loc[j].outs \cup loc[j].temps) \ {PipelinePath}
Changed == (fs' \ fs) \cup (fs \ fs')

\* C35: two jobs with different identifiers that run at the same time never
\* write or delete the same output artifact, temporary link or working
\* directory: no step of one creates or removes a path the other created.
C35_NoSharedPath ==
    [][\A j1, j2 \in JobIds :
          (j1 # j2 /\ pc[j1] # "idle" /\ pc[j2] # "idle" /\ pc'[j2] # pc[j2])
             => Changed \cap Artifacts(j1) = {}]_vars

\* C36: in every reachable state of the job table an entry with status
\* ready has progress 100 and an output path, an entry with status failed
\* has an error and no output path, and an entry with status pending has
\* progress 0 and neither output path nor error.
C36_TableInvariants ==
    \A j \in JobIds :
       LET e == active_conversions[j]
       IN /\ e.status = "ready" => (e.progress = 100 /\ e.output_path # NoPath)
          /\ e.status = "failed" => (e.error # "None" /\ e.output_path = NoPath)
          /\ e.status = "pending"
                => (e.progress = 0 /\ e.output_path = NoPath /\ e.error = "None")

C36_Witness ==
    /\ \E j \in JobIds : active_conversions[j].status = "ready"
    /\ \E j \in JobIds : active_conversions[j].status = "failed"
    /\ \A j \in JobIds : pc[j] = "idle"

\* What a submission for job j, whose entry is ready or failed, does: the
\* entry becomes a fresh pending record, the other entries stay, and one
\* task is added to none.
StartsNewAttempt(j, found) ==
    /\ TableAfter(active_conversions, j, found)
          = [active_conversions EXCEPT ![j] = PendingEntry]
    /\ scheduled[j] = 0
    /\ TasksAfter(scheduled, active_conversions, j, found)
          = [scheduled EXCEPT ![j] = 1]

\* The earlier attempt has finished and nothing of it runs on: no task of
\* the job is running while its entry is ready, failed or pending.
EarlierAttemptFinished(j) ==
    active_conversions[j].status \in {"ready", "failed", "pending"} => pc[j] = "idle"

\* C37 as stated: a submission whose job identifier has an entry in status
\* ready or failed starts a new attempt (fresh pending record, exactly one
\* task scheduled), and no write of the finished earlier attempt lands on
\* the new record.
C37_ResubmissionStartsAttempt ==
    \A j \in JobIds :
       /\ EarlierAttemptFinished(j)
       /\ active_conversions[j].status \in {"ready", "failed"}
             => \A found \in BOOLEAN : StartsNewAttempt(j, found)

\* C37, amended: a submission whose job identifier has an entry in status
\* ready or failed and whose source file is found starts a new attempt
\* (fresh pending record, exactly one task scheduled), and no write of the
\* finished earlier attempt lands on the new record; when the source file
\* is not found the entry stays as it is and no task is scheduled.
C37_FoundResubmissionStartsAttempt ==
    \A j \in JobIds :
       /\ EarlierAttemptFinished(j)
       /\ active_conversions[j].status \in {"ready", "failed"}
             => /\ StartsNewAttempt(j, TRUE)
                /\ TableAfter(active_conversions, j, FALSE) = active_conversions
                /\ TasksAfter(scheduled, active_conversions, j, FALSE) = scheduled

\* A job accepted twice: its second submission found its entry ready or
\* failed, and the new record is pending.
C37_Witness ==
    \E j \in JobIds :
       /\ Weight(j) = 1
       /\ submits = 2
       /\ active_conversions[j] = PendingEntry
       /\ scheduled[j] = 1
       /\ \A k \in JobIds \ {j} : active_conversions[k].status = "none"

\* A submission for job j whose source file is not found leaves the table
\* and the task list as they are.
NotFoundChangesNothing(j) ==
    /\ TableAfter(active_conversions, j, FALSE) = active_conversions
    /\ TasksAfter(scheduled, active_conversions, j, FALSE) = scheduled

\* C38 as stated: a submission whose source file cannot be found is
\* rejected with a not-found error and leaves the job table unchanged: no
\* entry is created or modified and no task is scheduled.
C38_NotFoundRejected ==
    \A j \in JobIds :
       /\ Response(active_conversions, j, FALSE).code = 404
       /\ NotFoundChangesNothing(j)

\* C38, amended: a submission whose source file cannot be found leaves the
\* job table unchanged and schedules no task; it is rejected with a
\* not-found error unless the job's entry is pending or converting, in
\* which case it is answered with that entry's status, the duplicate check
\* coming before the source lookup.
C38_NotFoundChangesNothing ==
    \A j \in JobIds :
       /\ NotFoundChangesNothing(j)
       /\ IF IsActive(active_conversions[j])
          THEN /\ Response(active_conversions, j, FALSE).code = 200
               /\ Response(active_conversions, j, FALSE).status
                     = active_conversions[j].status
          ELSE Response(active_conversions, j, FALSE).code = 404

\* A submission can be taken while one job's entry is ready and another
\* job has no entry.
C38_Witness ==
    /\ \E j \in JobIds : /\ active_conversions[j].status = "ready"
                         /\ submits + Weight(j) <= MaxSubmits
    /\ \E j \in JobIds : /\ active_conversions[j].status = "none"
                         /\ submits + Weight(j) <= MaxSubmits
====
